---- MODULE Spec2Model ----
(***************************************************************************)
(* SyncName (src/syncName.ts): the tree walk of syncNames / syncDir and    *)
(* the second pass of resolveCollisions, over a target file system that    *)
(* the renames and copies change.                                          *)
(*                                                                         *)
(* A path string is kept as its directory components and the characters of *)
(* its base name; a ParsedFile is the record path.parse makes of it.       *)
(***************************************************************************)
EXTENDS Naturals, Sequences, FiniteSets

\* ------------------------------------------------------------------ bounds

\* Regular files of the source tree, and of the target tree before the run.
MaxSrc == 3
MaxTgt == 2
\* Entries of a collisions map given to resolveCollisions directly, and the
\* candidates of one entry.
MaxKeys == 2
MaxCands == 2

\* ---------------------------------------------------------------- universe

\* [a-zA-Z0-9]: every other character is one that syncRegex strips.
Alnum ==
    {"a", "b", "c", "d", "e", "f", "g", "h", "i", "j", "k", "l", "m",
     "n", "o", "p", "q", "r", "s", "t", "u", "v", "w", "x", "y", "z",
     "A", "B", "C", "D", "E", "F", "G", "H", "I", "J", "K", "L", "M",
     "N", "O", "P", "Q", "R", "S", "T", "U", "V", "W", "X", "Y", "Z",
     "0", "1", "2", "3", "4", "5", "6", "7", "8", "9"}

\* Stems that clean to "a", "a" and "aa", of lengths 1, 2 and 2.
Stems == {<<"a">>, <<"a", "_">>, <<"a", "a">>}
Exts == {<<".", "x">>, <<".", "y">>}
DSStore == <<".DS_Store">>
Postfixes == {<<"p">>}

sourceRoot == <<"src">>
targetRoot == <<"tgt">>

\* Directories relative to a root: the root itself and a chain beneath it.
RelDirs == {<<>>, <<"d">>, <<"d", "e">>}

\* ---------------------------------------------------------- Path Descriptor

IsPrefix(s, t) == Len(s) <= Len(t) /\ SubSeq(t, 1, Len(s)) = s

\* path.join(a, b) on component lists.
Join(a, b) == a \o b

\* path.relative(from, to) for `to` at or beneath `from`.
Relative(from, to) ==
    IF IsPrefix(from, to) THEN SubSeq(to, Len(from) + 1, Len(to)) ELSE <<"..">> \o to

LastDot(base) ==
    LET dots == {i \in 1..Len(base) : base[i] = "."}
    IN  IF dots = {} THEN 0 ELSE CHOOSE i \in dots : \A j \in dots : j <= i

\* new ParsedFile(p): path.parse of [dir, base]; the extension starts at the
\* last dot of the base name unless that dot is its first character.
Parse(p) ==
    LET d == LastDot(p.base)
    IN  IF d <= 1
        THEN [dir |-> p.dir, name |-> p.base, ext |-> <<>>]
        ELSE [dir |-> p.dir, name |-> SubSeq(p.base, 1, d - 1),
              ext |-> SubSeq(p.base, d, Len(p.base))]

base(f) == f.name \o f.ext

\* path.format(this)
fullPath(f) == [dir |-> f.dir, base |-> base(f)]

\* withName losing the extension with the old name.
withNameOnly(f, n) == [Parse(fullPath(f)) EXCEPT !.name = n, !.ext = <<>>]

withName(f, n) == [Parse(fullPath(f)) EXCEPT !.name = n]

withParentDirectory(f, d) ==
    LET newFile == Parse(fullPath(f)) IN [newFile EXCEPT !.dir = Join(d, f.dir)]

relativeTo(f, d) ==
    LET newFile == Parse(fullPath(f)) IN [newFile EXCEPT !.dir = Relative(d, f.dir)]

equal(f, g) == fullPath(f) = fullPath(g)

\* ------------------------------------------------------------ Sync Predicate

\* name.replace(syncRegex, '')
Clean(name) == SelectSeq(name, LAMBDA c : c \in Alnum)

\* The predicate with its two names the other way round.
areSyncableReversed(sourceFile, targetFile) ==
    IsPrefix(Clean(sourceFile.name), Clean(targetFile.name))

areSyncable(sourceFile, targetFile) ==
    IsPrefix(Clean(targetFile.name), Clean(sourceFile.name))

\* stable Array.prototype.sort with byNameLenDesc (b.name.length - a.name.length)
RECURSIVE sortByNameLenDesc(_)
sortByNameLenDesc(files) ==
    IF files = <<>> THEN <<>>
    ELSE LET longest == CHOOSE i \in 1..Len(files) :
                 /\ \A j \in 1..Len(files) : Len(files[j].name) <= Len(files[i].name)
                 /\ \A j \in 1..(i - 1) : Len(files[j].name) < Len(files[i].name)
             rest == [k \in 1..(Len(files) - 1) |->
                         IF k < longest THEN files[k] ELSE files[k + 1]]
         IN  <<files[longest]>> \o sortByNameLenDesc(rest)

\* -------------------------------------------------------------------- state

VARIABLES
    srcDirs,      \* directories of the source tree, relative to sourceRoot
    srcFiles,     \* regular files of the source tree: paths [dir, base]
    tgtDirs,      \* directories of the target tree, relative to targetRoot
    tgtDirs0,     \* directories of the target tree before the run
    tgt0,         \* regular files of the target tree before the run
    tgt,          \* regular files of the target tree: path -> the content it holds
    postfix,      \* collisionPostfix
    pc,           \* where the run is
    todo,         \* syncNames: the klawSync list not yet visited
    sourceDir,    \* syncDir: its directory pair
    targetDir,
    sourceFiles,  \* syncDir: the source files forEach has not reached yet
    targetFiles,  \* syncDir: the listing of the target directory
    resolved,     \* SyncResults.resolved
    collisions,   \* SyncResults.collisions, in insertion order: [key, cands]
    keys,         \* resolveCollisions: the sorted keys forEach has not reached yet
    toRename,     \* resolveCollisions: [file, name, key] in insertion order
    toCopy,       \* resolveCollisions: [source, target] in insertion order
    step,         \* resolveCollisions: entries of toRename, then toCopy, carried out
    ops,          \* history: what was done to the target tree, and for which source file
    progress      \* history: the messages given to onProgressCallback

vars == <<srcDirs, srcFiles, tgtDirs, tgtDirs0, tgt0, tgt, postfix, pc, todo, sourceDir, targetDir,
          sourceFiles, targetFiles, resolved, collisions, keys, toRename, toCopy,
          step, ops, progress>>

walkVars == <<todo, sourceDir, targetDir, sourceFiles, targetFiles>>
resolveVars == <<keys, toRename, toCopy, step>>
treeVars == <<srcDirs, srcFiles, tgtDirs0, tgt0, postfix>>

\* ------------------------------------------------------------- file system

\* The subsets of S with at most n elements.
RECURSIVE SubsetsUpTo(_, _)
SubsetsUpTo(S, n) ==
    IF n = 0 THEN {{}}
    ELSE LET smaller == SubsetsUpTo(S, n - 1)
         IN  smaller \cup {T \cup {x} : T \in smaller, x \in S}

\* The orders a directory listing can come in.
Orders(S) ==
    {s \in [1..Cardinality(S) -> S] : \A i, j \in 1..Cardinality(S) : i # j => s[i] # s[j]}

\* A set of relative directories that holds the parent of each of its members.
IsTree(D) == <<>> \in D /\ \A d \in D : d = <<>> \/ SubSeq(d, 1, Len(d) - 1) \in D

PathsUnder(root, D, names) == {[dir |-> Join(root, d), base |-> b] : d \in D, b \in names}

\* fs.readdirSync(dir, {withFileTypes: true}).filter(isFile && name !== '.DS_Store')
\*   .map(dirent => new ParsedFile(dirent.name)), as the set the listing holds
listFiles(paths, dir) ==
    {Parse([dir |-> <<>>, base |-> p.base]) : p \in {q \in paths : q.dir = dir /\ q.base # DSStore}}

\* The names a source directory can hold, and those a target directory can:
\* every stem once, and one of them under a second extension.
SrcNames == {s \o e : s \in Stems, e \in Exts} \cup {DSStore}
TgtNames == {s \o <<".", "x">> : s \in Stems} \cup {<<"a", ".", "y">>}

\* The names in the directories of a deep tree.
DeepSrcNames == {<<"a", "a", ".", "x">>}
DeepTgtNames == {<<"a", ".", "x">>, <<"a", "_", ".", "x">>}

Tree(sd, sf, td, tf) == [srcDirs |-> sd, srcFiles |-> sf, tgtDirs |-> td, tgtFiles |-> tf]

\* One directory pair, with any of the names in it.
FlatTrees ==
    {Tree({<<>>}, sf, {<<>>}, tf) :
        sf \in SubsetsUpTo(PathsUnder(sourceRoot, {<<>>}, SrcNames), MaxSrc),
        tf \in SubsetsUpTo(PathsUnder(targetRoot, {<<>>}, TgtNames), MaxTgt)}

\* A source tree with directories beneath its root, over a target tree that
\* has some of them.
DeepTrees ==
    UNION {{Tree(sd, sf, td, tf) :
                sf \in SubsetsUpTo(PathsUnder(sourceRoot, sd, DeepSrcNames), MaxSrc),
                tf \in SubsetsUpTo(PathsUnder(targetRoot, td, DeepTgtNames), MaxTgt)} :
           sd \in {D \in SUBSET RelDirs : IsTree(D) /\ D # {<<>>}},
           td \in {D \in SUBSET RelDirs : IsTree(D)}}

\* The trees of the prefix predicate example.
Report_2024 == <<"R", "e", "p", "o", "r", "t", "_", "2", "0", "2", "4">>
Report == <<"R", "e", "p", "o", "r", "t">>
Report2024_final ==
    <<"R", "e", "p", "o", "r", "t", "2", "0", "2", "4", "_", "f", "i", "n", "a", "l">>
txt == <<".", "t", "x", "t">>

\* The same, and a directory pair whose listings in byte order are
\* "a-b.x", "a_.x" and "a_.x", "ab.x".
ExampleTrees ==
    {Tree({<<>>}, {[dir |-> sourceRoot, base |-> Report_2024 \o txt]}, {<<>>}, tf) :
        tf \in SUBSET PathsUnder(targetRoot, {<<>>}, {Report \o txt, Report2024_final \o txt})}
    \cup
    {Tree({<<>>},
          PathsUnder(sourceRoot, {<<>>}, {<<"a", "-", "b", ".", "x">>, <<"a", "_", ".", "x">>}),
          {<<>>},
          PathsUnder(targetRoot, {<<>>}, {<<"a", "_", ".", "x">>, <<"a", "b", ".", "x">>}))}

Init ==
    /\ \E tree \in FlatTrees \cup DeepTrees \cup ExampleTrees :
           /\ srcDirs = tree.srcDirs
           /\ srcFiles = tree.srcFiles
           /\ tgtDirs = tree.tgtDirs
           /\ tgtDirs0 = tree.tgtDirs
           /\ tgt0 = tree.tgtFiles
           /\ tgt = [p \in tree.tgtFiles |-> p]
    /\ postfix \in Postfixes
    /\ pc = "syncNames"
    /\ todo = <<>>
    /\ sourceDir = <<>>
    /\ targetDir = <<>>
    /\ sourceFiles = <<>>
    /\ targetFiles = <<>>
    /\ resolved = <<>>
    /\ collisions = <<>>
    /\ keys = <<>>
    /\ toRename = <<>>
    /\ toCopy = <<>>
    /\ step = 0
    /\ ops = <<>>
    /\ progress = <<>>

existsSync(dirs, dir) == Relative(targetRoot, dir) \in dirs

\* fs.renameSync(old, new): the file moves, replacing what `new` held.
renameSync(files, old, new) ==
    [p \in (DOMAIN files \ {old}) \cup {new} |-> IF p = new THEN files[old] ELSE files[p]]

\* fs.copyFileSync(source, target): `target` holds the source file's content.
copyFileSync(files, source, target) ==
    [p \in DOMAIN files \cup {target} |-> IF p = target THEN source ELSE files[p]]

\* What renameFile(file, newName) leaves of the target tree; it calls
\* fs.renameSync only when the name changes.
renameFile(files, file, newName) ==
    IF file.name # newName
    THEN renameSync(files, fullPath(file), fullPath(withName(file, newName)))
    ELSE files

\* fs.renameSync throws ENOENT for a path that is gone.
renameFileThrows(files, file, newName) ==
    file.name # newName /\ fullPath(file) \notin DOMAIN files

\* copyFile with the arguments of fs.copyFileSync the other way round.
copyFileSwapped(files, sourceFile, targetFile) ==
    copyFileSync(files, fullPath(targetFile), fullPath(sourceFile))

copyFile(files, sourceFile, targetFile) ==
    copyFileSync(files, fullPath(sourceFile), fullPath(targetFile))

Op(kind, by, from, to) == [kind |-> kind, by |-> by, from |-> from, to |-> to]

\* The history entries of renameFile(file, newName) done for source file `by`.
renameOps(file, newName, by) ==
    IF file.name # newName
    THEN <<Op("rename", fullPath(by), fullPath(file), fullPath(withName(file, newName)))>>
    ELSE <<>>

\* ------------------------------------------------------------------ syncDir

\* syncDir starting every call on empty results, whatever it is handed.
SyncDirFreshResults(rel) ==
    /\ IF pc = "syncNames" THEN rel = <<>>
       ELSE pc = "walk" /\ sourceFiles = <<>> /\ todo # <<>> /\ rel = Head(todo)
    /\ LET sd == Join(sourceRoot, rel)
           td == Join(targetRoot, rel)
           missing == ~existsSync(tgtDirs, td)
       IN  /\ sourceDir' = sd
           /\ targetDir' = td
           /\ todo' = IF pc = "syncNames" THEN todo ELSE Tail(todo)
           /\ IF missing /\ ~existsSync(tgtDirs, SubSeq(td, 1, Len(td) - 1))
              THEN /\ pc' = "error"
                   /\ UNCHANGED <<tgtDirs, sourceFiles, targetFiles>>
              ELSE /\ pc' = IF pc = "syncNames" THEN "root" ELSE "walk"
                   /\ tgtDirs' = IF missing THEN tgtDirs \cup {rel} ELSE tgtDirs
                   /\ sourceFiles' \in Orders(listFiles(srcFiles, sd))
                   /\ targetFiles' \in Orders(listFiles(DOMAIN tgt, td))
    /\ resolved' = <<>>
    /\ collisions' = <<>>
    /\ UNCHANGED <<treeVars, tgt, resolveVars, ops, progress>>

\* syncDir up to its forEach: both listings, and the target directory made
\* when it is missing.  mkdirSync throws when the parent is missing too.
SyncDir(rel) ==
    /\ IF pc = "syncNames" THEN rel = <<>>
       ELSE pc = "walk" /\ sourceFiles = <<>> /\ todo # <<>> /\ rel = Head(todo)
    /\ LET sd == Join(sourceRoot, rel)
           td == Join(targetRoot, rel)
           missing == ~existsSync(tgtDirs, td)
       IN  /\ sourceDir' = sd
           /\ targetDir' = td
           /\ todo' = IF pc = "syncNames" THEN todo ELSE Tail(todo)
           /\ IF missing /\ ~existsSync(tgtDirs, SubSeq(td, 1, Len(td) - 1))
              THEN /\ pc' = "error"
                   /\ UNCHANGED <<tgtDirs, sourceFiles, targetFiles>>
              ELSE /\ pc' = IF pc = "syncNames" THEN "root" ELSE "walk"
                   /\ tgtDirs' = IF missing THEN tgtDirs \cup {rel} ELSE tgtDirs
                   /\ sourceFiles' \in Orders(listFiles(srcFiles, sd))
                   /\ targetFiles' \in Orders(listFiles(DOMAIN tgt, td))
    /\ UNCHANGED <<treeVars, tgt, resolved, collisions, resolveVars, ops, progress>>

InForEach == pc \in {"root", "walk"} /\ sourceFiles # <<>>

sourceFile == Head(sourceFiles)

\* resolved.includes(candidate): the candidate is a fresh object every time.
isResolvedByIdentity(candidate) == FALSE

isResolved(candidate) == \E i \in 1..Len(resolved) : equal(resolved[i], candidate)

\* The candidates with the predicate left out of the filter.
targetCandidatesUnmatched ==
    LET placed == [i \in 1..Len(targetFiles) |-> withParentDirectory(targetFiles[i], targetDir)]
    IN  SelectSeq(placed, LAMBDA candidate : ~isResolved(candidate))

targetCandidates ==
    LET matching == SelectSeq(targetFiles, LAMBDA candidate : areSyncable(sourceFile, candidate))
        placed == [i \in 1..Len(matching) |-> withParentDirectory(matching[i], targetDir)]
    IN  SelectSeq(placed, LAMBDA candidate : ~isResolved(candidate))

\* The message made of sourceFile itself, which has no directory.
onProgressCallbackBareName == Append(progress, fullPath(sourceFile))

onProgressCallback == Append(progress, fullPath(withParentDirectory(sourceFile, sourceDir)))

\* targetCandidates.length === 1
Claim ==
    /\ InForEach
    /\ Len(targetCandidates) = 1
    /\ LET candidate == targetCandidates[1]
           by == withParentDirectory(sourceFile, sourceDir)
           marked == <<Op("resolved", fullPath(by), fullPath(candidate), fullPath(candidate))>>
       IN  /\ resolved' = Append(resolved, candidate)
           /\ IF renameFileThrows(tgt, candidate, sourceFile.name)
              THEN /\ pc' = "error"
                   /\ ops' = ops \o marked
                   /\ UNCHANGED <<tgt, sourceFiles, progress>>
              ELSE /\ tgt' = renameFile(tgt, candidate, sourceFile.name)
                   /\ ops' = ops \o marked \o renameOps(candidate, sourceFile.name, by)
                   /\ sourceFiles' = Tail(sourceFiles)
                   /\ progress' = onProgressCallback
                   /\ UNCHANGED pc
    /\ UNCHANGED <<treeVars, tgtDirs, todo, sourceDir, targetDir, targetFiles,
                   collisions, resolveVars>>

\* The collision branch marking its first candidate as claimed.
CollideClaimsFirst ==
    /\ InForEach
    /\ Len(targetCandidates) > 1
    /\ collisions' = Append(collisions,
           [key |-> withParentDirectory(sourceFile, sourceDir), cands |-> targetCandidates])
    /\ resolved' = Append(resolved, targetCandidates[1])
    /\ sourceFiles' = Tail(sourceFiles)
    /\ progress' = onProgressCallback
    /\ UNCHANGED <<treeVars, tgtDirs, tgt, pc, todo, sourceDir, targetDir, targetFiles,
                   resolveVars, ops>>

\* targetCandidates.length > 1
Collide ==
    /\ InForEach
    /\ Len(targetCandidates) > 1
    /\ collisions' = Append(collisions,
           [key |-> withParentDirectory(sourceFile, sourceDir), cands |-> targetCandidates])
    /\ sourceFiles' = Tail(sourceFiles)
    /\ progress' = onProgressCallback
    /\ UNCHANGED <<treeVars, tgtDirs, tgt, pc, todo, sourceDir, targetDir, targetFiles,
                   resolved, resolveVars, ops>>

\* no candidate
CopyNew ==
    /\ InForEach
    /\ Len(targetCandidates) = 0
    /\ LET from == withParentDirectory(sourceFile, sourceDir)
           to == withParentDirectory(sourceFile, targetDir)
       IN  /\ tgt' = copyFile(tgt, from, to)
           /\ ops' = Append(ops, Op("copy", fullPath(from), fullPath(from), fullPath(to)))
    /\ sourceFiles' = Tail(sourceFiles)
    /\ progress' = onProgressCallback
    /\ UNCHANGED <<treeVars, tgtDirs, pc, todo, sourceDir, targetDir, targetFiles,
                   resolved, collisions, resolveVars>>

\* ---------------------------------------------------------------- syncNames

IsUnder(d, e) == IsPrefix(e, d)

\* The directories beneath the root in any order.
klawSyncAnyOrder(dirs) == Orders(dirs \ {<<>>})

\* klawSync(sourceRoot, {nofile: true}): the directories beneath the root,
\* each before what it holds and with none of another directory in between.
klawSync(dirs) ==
    {order \in Orders(dirs \ {<<>>}) :
        \A i, k \in 1..Len(order) :
            IsUnder(order[k], order[i]) /\ k # i =>
                i < k /\ \A j \in i..k : IsUnder(order[j], order[i])}

KlawSync ==
    /\ pc = "root"
    /\ sourceFiles = <<>>
    /\ todo' \in klawSync(srcDirs)
    /\ pc' = "walk"
    /\ UNCHANGED <<treeVars, tgtDirs, tgt, sourceDir, targetDir, sourceFiles, targetFiles,
                   resolved, collisions, resolveVars, ops, progress>>

\* -------------------------------------------------------- resolveCollisions

\* The keys as the map holds them, the sort left out.
keysInMapOrder(map) == [i \in 1..Len(map) |-> [name |-> map[i].key.name, ix |-> i]]

\* [...collisions.keys()].sort(byNameLenDesc); a key is known by its place in
\* the map, as the Map knows it by the object.
sortedKeys(map) ==
    sortByNameLenDesc([i \in 1..Len(map) |-> [name |-> map[i].key.name, ix |-> i]])

\* main: syncNames has returned, and resolveCollisions starts on what it returned.
ResolveCollisions ==
    /\ pc = "walk"
    /\ sourceFiles = <<>>
    /\ todo = <<>>
    /\ pc' = "resolveCollisions"
    /\ keys' = sortedKeys(collisions)
    /\ UNCHANGED <<treeVars, tgtDirs, tgt, walkVars, resolved, collisions,
                   toRename, toCopy, step, ops, progress>>

Planning == pc = "resolveCollisions" /\ keys # <<>>

\* toRename.has(candidate): a candidate object is in one key's list only.
isClaimedByIdentity(candidate) == FALSE

isClaimed(candidate) == \E i \in 1..Len(toRename) : equal(toRename[i].file, candidate)

\* The candidates not yet in toRename, the sort left out.
remainingUnsorted(ix) ==
    SelectSeq(collisions[ix].cands, LAMBDA candidate : ~isClaimed(candidate))

\* collisions.get(sourceFile).filter(not yet in toRename).sort(byNameLenDesc)
remaining(ix) ==
    sortByNameLenDesc(SelectSeq(collisions[ix].cands, LAMBDA candidate : ~isClaimed(candidate)))

\* if (fileToRename)
PlanRename ==
    /\ Planning
    /\ LET ix == Head(keys).ix
       IN  /\ remaining(ix) # <<>>
           /\ toRename' = Append(toRename,
                  [file |-> remaining(ix)[1], name |-> collisions[ix].key.name, key |-> ix])
    /\ keys' = Tail(keys)
    /\ UNCHANGED <<treeVars, tgtDirs, tgt, pc, walkVars, resolved, collisions,
                   toCopy, step, ops, progress>>

\* The else branch left out: the key is passed over.
PlanCopyDropsKey ==
    /\ Planning
    /\ remaining(Head(keys).ix) = <<>>
    /\ keys' = Tail(keys)
    /\ UNCHANGED <<treeVars, tgtDirs, tgt, pc, walkVars, resolved, collisions,
                   toRename, toCopy, step, ops, progress>>

\* else
PlanCopy ==
    /\ Planning
    /\ LET ix == Head(keys).ix
           source == collisions[ix].key
       IN  /\ remaining(ix) = <<>>
           /\ toCopy' = Append(toCopy,
                  [source |-> source,
                   target |-> withParentDirectory(relativeTo(source, sourceRoot), targetRoot),
                   key |-> ix])
    /\ keys' = Tail(keys)
    /\ UNCHANGED <<treeVars, tgtDirs, tgt, pc, walkVars, resolved, collisions,
                   toRename, step, ops, progress>>

\* The postfix put straight after the name.
postfixedNoSpace(name) == name \o postfix

\* postfix = ' ' + postfix
postfixed(name) == name \o <<" ">> \o postfix

\* toRename.forEach
DoRename ==
    /\ pc = "resolveCollisions"
    /\ keys = <<>>
    /\ step < Len(toRename)
    /\ LET entry == toRename[step + 1]
           by == collisions[entry.key].key
       IN  IF renameFileThrows(tgt, entry.file, postfixed(entry.name))
           THEN /\ pc' = "error"
                /\ UNCHANGED <<tgt, step, ops, progress>>
           ELSE /\ tgt' = renameFile(tgt, entry.file, postfixed(entry.name))
                /\ ops' = ops \o renameOps(entry.file, postfixed(entry.name), by)
                /\ step' = step + 1
                /\ progress' = Append(progress, fullPath(entry.file))
                /\ UNCHANGED pc
    /\ UNCHANGED <<treeVars, tgtDirs, walkVars, resolved, collisions, keys, toRename, toCopy>>

\* toCopy.forEach
DoCopy ==
    /\ pc = "resolveCollisions"
    /\ keys = <<>>
    /\ step >= Len(toRename)
    /\ step < Len(toRename) + Len(toCopy)
    /\ LET entry == toCopy[step - Len(toRename) + 1]
           to == withName(entry.target, postfixed(entry.target.name))
       IN  /\ tgt' = copyFile(tgt, entry.source, to)
           /\ ops' = Append(ops, Op("copy", fullPath(entry.source), fullPath(entry.source),
                                    fullPath(to)))
           /\ progress' = Append(progress, fullPath(entry.source))
    /\ step' = step + 1
    /\ UNCHANGED <<treeVars, tgtDirs, pc, walkVars, resolved, collisions, keys,
                   toRename, toCopy>>

\* main has reached 'Synchronization completed!'
Completed ==
    pc = "resolveCollisions" /\ keys = <<>> /\ step = Len(toRename) + Len(toCopy)

Next ==
    \/ \E rel \in RelDirs : SyncDir(rel)
    \/ Claim
    \/ Collide
    \/ CopyNew
    \/ KlawSync
    \/ ResolveCollisions
    \/ PlanRename
    \/ PlanCopy
    \/ DoRename
    \/ DoCopy

Spec == Init /\ [][Next]_vars

\* ------------------------------------- resolveCollisions on any collisions map

\* The keys and the candidates of the maps: stems of lengths 1, 1 and 2, and
\* of lengths 1, 2 and 2, in a root and in a directory beneath it.
MapKeys ==
    {[dir |-> sourceRoot, name |-> <<"a">>, ext |-> <<".", "x">>],
     [dir |-> sourceRoot, name |-> <<"a">>, ext |-> <<".", "y">>],
     [dir |-> Join(sourceRoot, <<"d">>), name |-> <<"a", "a">>, ext |-> <<".", "x">>]}

MapCands ==
    {[dir |-> targetRoot, name |-> <<"a">>, ext |-> <<".", "x">>],
     [dir |-> targetRoot, name |-> <<"a", "_">>, ext |-> <<".", "x">>],
     [dir |-> Join(targetRoot, <<"d">>), name |-> <<"a", "a">>, ext |-> <<".", "x">>]}

\* The sequences of at most n different members of S.
SeqsUpTo(S, n) == UNION {Orders(T) : T \in SubsetsUpTo(S, n)}

\* syncNames has returned some map; every candidate in it is a file of the
\* target tree.
InitMap ==
    /\ \E keySeq \in SeqsUpTo(MapKeys, MaxKeys) :
           \E candSeqs \in [1..Len(keySeq) -> SeqsUpTo(MapCands, MaxCands)] :
               collisions = [i \in 1..Len(keySeq) |->
                                [key |-> keySeq[i], cands |-> candSeqs[i]]]
    /\ srcDirs = {<<>>, <<"d">>}
    /\ tgtDirs = {<<>>, <<"d">>}
    /\ tgtDirs0 = tgtDirs
    /\ srcFiles = {fullPath(collisions[i].key) : i \in 1..Len(collisions)}
    /\ tgt0 = {fullPath(c) : c \in MapCands}
    /\ tgt = [p \in tgt0 |-> p]
    /\ postfix \in Postfixes
    /\ pc = "walk"
    /\ todo = <<>>
    /\ sourceDir = <<>>
    /\ targetDir = <<>>
    /\ sourceFiles = <<>>
    /\ targetFiles = <<>>
    /\ resolved = <<>>
    /\ keys = <<>>
    /\ toRename = <<>>
    /\ toCopy = <<>>
    /\ step = 0
    /\ ops = <<>>
    /\ progress = <<>>

NextMap ==
    \/ ResolveCollisions
    \/ PlanRename
    \/ PlanCopy
    \/ DoRename
    \/ DoCopy

SpecMap == InitMap /\ [][NextMap]_vars

\* ------------------------------------------------------------------ claims

Touches(op) == op.kind \in {"resolved", "rename"}

\* C1: over a complete run, no target file path is pushed to `resolved` or
\* renamed on behalf of two distinct source files, the walk and the resolution
\* pass counted together.
C1_NoDoubleClaim ==
    \A i, j \in 1..Len(ops) :
        Touches(ops[i]) /\ Touches(ops[j]) /\ ops[i].from = ops[j].from
            => ops[i].by = ops[j].by

Mirrored(dir) == Join(targetRoot, Relative(sourceRoot, dir))

HasCounterpart(s) ==
    \E p \in DOMAIN tgt :
        /\ p.dir = Mirrored(s.dir)
        /\ Parse(p).name \in {Parse(s).name, Parse(s).name \o <<" ">> \o postfix}

\* C2: after syncNames and resolveCollisions have run to completion with
\* postfix p, every regular, non-ignored source file has a file in the
\* mirrored target directory whose stem is the source file's stem, or that
\* stem followed by " " and p.
C2_EverySourceHasCounterpart ==
    Completed => \A s \in srcFiles : s.base # DSStore => HasCounterpart(s)

PlanDone == pc = "resolveCollisions" /\ keys = <<>>

Waiting(ix) == \E k \in 1..Len(keys) : keys[k].ix = ix
RenamesFor(ix) == {i \in 1..Len(toRename) : toRename[i].key = ix}
CopiesFor(ix) == {j \in 1..Len(toCopy) : toCopy[j].key = ix}
IsCandidateOf(file, ix) ==
    \E n \in 1..Len(collisions[ix].cands) : equal(collisions[ix].cands[n], file)

\* C3: resolveCollisions gives every key of the map exactly one outcome, the
\* rename of one of its candidates or the copy of the source file, never both
\* and never none, so that renames and copies planned add up to the keys.
C3_CollisionTotality ==
    pc = "resolveCollisions" =>
        /\ \A ix \in 1..Len(collisions) :
               Cardinality(RenamesFor(ix)) + Cardinality(CopiesFor(ix))
                   = IF Waiting(ix) THEN 0 ELSE 1
        /\ \A i \in 1..Len(toRename) :
               /\ toRename[i].key \in 1..Len(collisions)
               /\ IsCandidateOf(toRename[i].file, toRename[i].key)
               /\ toRename[i].name = collisions[toRename[i].key].key.name
        /\ \A j \in 1..Len(toCopy) :
               /\ toCopy[j].key \in 1..Len(collisions)
               /\ toCopy[j].source = collisions[toCopy[j].key].key
        /\ (keys = <<>> => Len(toRename) + Len(toCopy) = Len(collisions))

C3_Witness == PlanDone /\ Len(toRename) >= 1 /\ Len(toCopy) >= 1

\* C6: within one resolveCollisions pass no two keys are given candidates
\* with the same path.
C6_RenameTargetsDistinct ==
    \A i, j \in 1..Len(toRename) :
        i # j => fullPath(toRename[i].file) # fullPath(toRename[j].file)

\* Two keys whose candidate lists share a path have both been given a candidate.
C6_Witness ==
    /\ PlanDone
    /\ \E i, j \in 1..Len(toRename) :
           /\ i # j
           /\ IsCandidateOf(toRename[i].file, toRename[j].key)
           /\ IsCandidateOf(toRename[j].file, toRename[i].key)

ClaimedByAsLong(candidate, ix) ==
    \E i \in 1..Len(toRename) :
        /\ equal(toRename[i].file, candidate)
        /\ Len(toRename[i].name) >= Len(collisions[ix].key.name)

\* C7: the keys are taken in descending stem length, and a key falls back to
\* a copy only when each of its candidates went to a key whose stem is at
\* least as long; so of two keys of different stem lengths that have the same
\* single candidate, the longer gets the rename and the shorter the copy.
C7_LongerKeyFirst ==
    pc = "resolveCollisions" =>
        /\ \A k, l \in 1..Len(keys) : k < l => Len(keys[k].name) >= Len(keys[l].name)
        /\ \A j \in 1..Len(toCopy) :
               \A n \in 1..Len(collisions[toCopy[j].key].cands) :
                   ClaimedByAsLong(collisions[toCopy[j].key].cands[n], toCopy[j].key)
        /\ \A ix, jx \in 1..Len(collisions) :
               /\ PlanDone
               /\ collisions[ix].cands = collisions[jx].cands
               /\ Len(collisions[ix].cands) = 1
               /\ Len(collisions[ix].key.name) > Len(collisions[jx].key.name)
               => RenamesFor(ix) # {} /\ CopiesFor(jx) # {}

\* A shorter key, placed first in the map, has lost its only candidate to a
\* longer one.
C7_Witness ==
    /\ PlanDone
    /\ \E ix, jx \in 1..Len(collisions) :
           /\ jx < ix
           /\ collisions[ix].cands = collisions[jx].cands
           /\ Len(collisions[ix].cands) = 1
           /\ Len(collisions[ix].key.name) > Len(collisions[jx].key.name)
           /\ CopiesFor(jx) # {}

\* The candidates of key ix that no entry of toRename before the i-th holds.
UnclaimedBefore(ix, i) ==
    {n \in 1..Len(collisions[ix].cands) :
        \A h \in 1..(i - 1) : ~equal(toRename[h].file, collisions[ix].cands[n])}

PickedAt(i) ==
    CHOOSE n \in UnclaimedBefore(toRename[i].key, i) :
        collisions[toRename[i].key].cands[n] = toRename[i].file

\* C8: the candidate a key gets is, of its candidates no earlier key got, one
\* of the longest stem, and of those the first in the key's candidate list.
LongestFirstPick ==
    \A i \in 1..Len(toRename) :
        LET ix == toRename[i].key
            open == UnclaimedBefore(ix, i)
            len(n) == Len(collisions[ix].cands[n].name)
        IN  /\ \E n \in open : collisions[ix].cands[n] = toRename[i].file
            /\ \A m \in open :
                   \/ len(m) < len(PickedAt(i))
                   \/ len(m) = len(PickedAt(i)) /\ PickedAt(i) <= m

\* C8, with the stored candidate lists left as they were.
C8_LongestNameTieBreak ==
    /\ [](pc = "resolveCollisions" => LongestFirstPick)
    /\ [][pc = "resolveCollisions" => collisions' = collisions]_vars

\* A key has passed over an earlier, shorter candidate, and a key has taken
\* the first of two candidates of the same length.
C8_Witness ==
    /\ PlanDone
    /\ \E i \in 1..Len(toRename) :
           \E m \in UnclaimedBefore(toRename[i].key, i) :
               /\ m < PickedAt(i)
               /\ Len(collisions[toRename[i].key].cands[m].name) < Len(toRename[i].file.name)
    /\ \E i \in 1..Len(toRename) :
           \E m \in UnclaimedBefore(toRename[i].key, i) :
               /\ m > PickedAt(i)
               /\ Len(collisions[toRename[i].key].cands[m].name) = Len(toRename[i].file.name)

WalkDone == pc = "resolveCollisions" \/ (pc = "walk" /\ sourceFiles = <<>> /\ todo = <<>>)

\* The trees are name-aligned: before the run the target tree holds, in each
\* mirrored directory, the names of the listed source files and nothing else.
NameAligned ==
    /\ \A s \in srcFiles :
           s.base # DSStore => [dir |-> Mirrored(s.dir), base |-> s.base] \in tgt0
    /\ \A t \in tgt0 :
           [dir |-> Join(sourceRoot, Relative(targetRoot, t.dir)), base |-> t.base] \in srcFiles

C5_NoDoubleClaimInPass ==
    /\ \A i, j \in 1..Len(resolved) :
           i # j => fullPath(resolved[i]) # fullPath(resolved[j])
    /\ InForEach =>
           \A n \in 1..Len(targetCandidates) : \A i \in 1..Len(resolved) :
               fullPath(resolved[i]) # fullPath(targetCandidates[n])

\* Two files of one directory are claimed, the second for a source file that
\* the first also matches.
C5_Witness ==
    \E i, j \in 1..Len(ops) :
        /\ i < j
        /\ ops[i].kind = "resolved"
        /\ ops[j].kind = "resolved"
        /\ ops[i].from.dir = ops[j].from.dir
        /\ areSyncable(Parse(ops[j].by), Parse(ops[i].from))

\* The listed target files that match the source file at hand are all in `resolved`.
NoOpenMatch ==
    \A n \in 1..Len(targetFiles) :
        areSyncable(sourceFile, targetFiles[n]) =>
            \E i \in 1..Len(resolved) :
                fullPath(resolved[i]) = [dir |-> targetDir, base |-> base(targetFiles[n])]

\* C9: a source file with no matching, unclaimed file in the listing of the
\* target directory is copied there under its own stem and extension, and
\* nothing else changes: no rename, nothing new in `resolved` or `collisions`.
C9_ZeroMatchCopy ==
    [][InForEach /\ NoOpenMatch =>
          LET from == [dir |-> sourceDir, base |-> base(sourceFile)]
              to == [dir |-> targetDir, base |-> base(sourceFile)]
          IN  /\ DOMAIN tgt' = DOMAIN tgt \cup {to}
              /\ tgt'[to] = from
              /\ \A p \in DOMAIN tgt \ {to} : tgt'[p] = tgt[p]
              /\ resolved' = resolved
              /\ collisions' = collisions
              /\ ops' = Append(ops, Op("copy", from, from, to))]_vars

\* The last thing the walk did is a copy, for a source file whose only
\* matching target file had been claimed before.
C9_Witness ==
    /\ pc \in {"root", "walk"}
    /\ ops # <<>>
    /\ ops[Len(ops)].kind = "copy"
    /\ \E i \in 1..Len(resolved) :
           /\ resolved[i].dir = ops[Len(ops)].to.dir
           /\ areSyncable(Parse(ops[Len(ops)].by), resolved[i])

\* Whether the letters and digits of t, in order, start those of s.
RECURSIVE StartsWithSkipping(_, _)
StartsWithSkipping(s, t) ==
    IF t = <<>> THEN TRUE
    ELSE IF Head(t) \notin Alnum THEN StartsWithSkipping(s, Tail(t))
    ELSE IF s = <<>> THEN FALSE
    ELSE IF Head(s) \notin Alnum THEN StartsWithSkipping(Tail(s), t)
    ELSE Head(s) = Head(t) /\ StartsWithSkipping(Tail(s), Tail(t))

IsReportExample == srcFiles = {[dir |-> sourceRoot, base |-> Report_2024 \o txt]}

\* C10: areSyncable holds exactly when the source stem, its characters other
\* than letters and digits dropped, starts with the target stem treated the
\* same, so never for a target that cleans to more characters; source
\* "Report_2024" matches target "Report" and not "Report2024_final", and
\* with both in the target directory "Report" alone is its candidate.
C10_PrefixPredicate ==
    /\ InForEach =>
           \A n \in 1..Len(targetFiles) :
               /\ areSyncable(sourceFile, targetFiles[n])
                      <=> StartsWithSkipping(sourceFile.name, targetFiles[n].name)
               /\ areSyncable(sourceFile, targetFiles[n])
                      => Len(Clean(targetFiles[n].name)) <= Len(Clean(sourceFile.name))
    /\ InForEach /\ IsReportExample =>
           /\ sourceFile.name = Report_2024
           /\ \A n \in 1..Len(targetFiles) :
                  areSyncable(sourceFile, targetFiles[n]) <=> targetFiles[n].name = Report
           /\ Len(targetFiles) = 2 =>
                  targetCandidates = <<[dir |-> targetRoot, name |-> Report, ext |-> txt]>>

\* "Report_2024" is at hand with both "Report" and "Report2024_final" listed.
C10_Witness == InForEach /\ IsReportExample /\ Len(targetFiles) = 2

Parent(d) == SubSeq(d, 1, Len(d) - 1)

InWalk == pc \in {"syncNames", "root", "walk"}

\* C11: the target directory that syncDir lists exists when it is listed, made
\* empty when it was missing; every directory still to be visited has its
\* parent mirrored already or ahead of it in the list, so that mkdirSync never
\* fails for a missing parent; after the walk every source directory has its
\* target directory, and none that was there before is gone.
C11_TreeMirroring ==
    /\ pc \in {"root", "walk"} =>
           /\ Relative(targetRoot, targetDir) \in tgtDirs
           /\ Relative(targetRoot, targetDir) \notin tgtDirs0 => targetFiles = <<>>
    /\ \A k \in 1..Len(todo) :
           \/ Parent(todo[k]) \in tgtDirs
           \/ \E j \in 1..(k - 1) : todo[j] = Parent(todo[k])
    /\ pc = "error" => toRename # <<>>
    /\ WalkDone => srcDirs \subseteq tgtDirs
    /\ tgtDirs0 \subseteq tgtDirs

\* The walk is over a source tree two directories deep whose target had
\* neither directory.
C11_Witness ==
    /\ WalkDone
    /\ <<"d", "e">> \in tgtDirs
    /\ <<"d">> \notin tgtDirs0

\* The messages of the walk: resolveCollisions adds one for every entry it
\* carries out.
walkProgress == SubSeq(progress, 1, Len(progress) - step)

Listed == {s \in srcFiles : s.base # DSStore}

BranchesTaken(s) ==
    Cardinality({n \in 1..Len(ops) : ops[n].by = s /\ ops[n].kind \in {"resolved", "copy"}})
        + Cardinality({k \in 1..Len(collisions) : fullPath(collisions[k].key) = s})

\* C12: during syncNames the progress sink gets the full path of each
\* regular, non-ignored source file exactly once, the files of the root
\* first and those of each directory together, whichever of claim, copy and
\* collision was taken for the file, and with that branch already carried
\* out; when the walk is done every such file has been reported.
C12_ProgressOncePerFile ==
    LET wp == walkProgress
    IN  /\ \A i \in 1..Len(wp) : wp[i] \in Listed
        /\ \A i, j \in 1..Len(wp) : i # j => wp[i] # wp[j]
        /\ \A i, j \in 1..Len(wp) : i < j /\ wp[j].dir = sourceRoot => wp[i].dir = sourceRoot
        /\ \A i, j, k \in 1..Len(wp) :
               i < j /\ j < k /\ wp[i].dir = wp[k].dir => wp[j].dir = wp[i].dir
        /\ InWalk =>
               /\ \A i \in 1..Len(wp) : BranchesTaken(wp[i]) = 1
               /\ \A s \in Listed : BranchesTaken(s) > 0 => \E i \in 1..Len(wp) : wp[i] = s
        /\ InForEach =>
               \A i \in 1..Len(wp) : wp[i] # [dir |-> sourceDir, base |-> base(sourceFile)]
        /\ WalkDone => {wp[i] : i \in 1..Len(wp)} = Listed

\* The walk is done and has taken each of the three branches.
C12_Witness ==
    /\ WalkDone
    /\ pc = "walk"
    /\ collisions # <<>>
    /\ \E n \in 1..Len(ops) : ops[n].kind = "resolved"
    /\ \E n \in 1..Len(ops) : ops[n].kind = "copy"
    /\ Len(progress) >= 3

\* The listed target files that match the source file at hand and whose path
\* `resolved` does not hold, by their place in the listing.
OpenMatches ==
    {n \in 1..Len(targetFiles) :
        /\ areSyncable(sourceFile, targetFiles[n])
        /\ \A i \in 1..Len(resolved) :
               fullPath(resolved[i]) # [dir |-> targetDir, base |-> base(targetFiles[n])]}

\* C13: a source file with exactly one matching, unclaimed file in the listing
\* of the target directory has that file renamed in place to its own stem,
\* directory and extension kept, and the file's path before the rename
\* appended to `resolved`; nothing is copied and `collisions` stays as it is.
C13_UniqueCandidateClaim ==
    [][InForEach /\ Cardinality(OpenMatches) = 1 =>
          LET t == targetFiles[CHOOSE n \in OpenMatches : TRUE]
              old == [dir |-> targetDir, base |-> t.name \o t.ext]
              new == [dir |-> targetDir, base |-> sourceFile.name \o t.ext]
          IN  /\ pc' = pc
              /\ resolved' = Append(resolved, [dir |-> targetDir, name |-> t.name, ext |-> t.ext])
              /\ old \in DOMAIN tgt
              /\ DOMAIN tgt' = (DOMAIN tgt \ {old}) \cup {new}
              /\ tgt'[new] = tgt[old]
              /\ \A p \in DOMAIN tgt \ {old, new} : tgt'[p] = tgt[p]
              /\ collisions' = collisions
              /\ Len(ops') > Len(ops)
              /\ \A n \in (Len(ops) + 1)..Len(ops') : ops'[n].kind # "copy"]_vars

\* The last thing the walk did is the rename of a claimed file to another stem.
C13_Witness ==
    /\ InWalk
    /\ Len(ops) >= 2
    /\ ops[Len(ops)].kind = "rename"
    /\ ops[Len(ops) - 1].kind = "resolved"
    /\ ops[Len(ops)].to # ops[Len(ops)].from
    /\ ops[Len(ops)].to.dir = ops[Len(ops)].from.dir

\* C14: a source file with two or more matching, unclaimed files in the
\* listing of the target directory gets one new entry in `collisions`, keyed
\* by its path and holding all of them in listing order; the entries before
\* it, the target tree and `resolved` stay as they are, with no rename and
\* no copy.
C14_CollisionDeferral ==
    [][InForEach /\ Cardinality(OpenMatches) >= 2 =>
          /\ Len(collisions') = Len(collisions) + 1
          /\ \A k \in 1..Len(collisions) : collisions'[k] = collisions[k]
          /\ LET entry == collisions'[Len(collisions')]
             IN  /\ entry.key = [dir |-> sourceDir, name |-> sourceFile.name,
                                  ext |-> sourceFile.ext]
                 /\ Len(entry.cands) = Cardinality(OpenMatches)
                 /\ \A n \in OpenMatches :
                        entry.cands[Cardinality({m \in OpenMatches : m <= n})]
                            = [dir |-> targetDir, name |-> targetFiles[n].name,
                               ext |-> targetFiles[n].ext]
          /\ tgt' = tgt
          /\ tgtDirs' = tgtDirs
          /\ resolved' = resolved
          /\ ops' = ops]_vars

\* The last source file reported was put in `collisions` with two candidates,
\* a second entry of the map.
C14_Witness ==
    /\ InWalk
    /\ Len(collisions) >= 2
    /\ progress # <<>>
    /\ progress[Len(progress)] = fullPath(collisions[Len(collisions)].key)
    /\ Len(collisions[Len(collisions)].cands) >= 2

\* C15: through the walk `resolved` and `collisions` only grow at their ends:
\* what `resolved` held stays in front, and every entry of `collisions` keeps
\* its place, its key and its candidate list, from one source file to the
\* next and from one directory to the next.
C15_ResultsOnlyGrow ==
    [][InWalk => /\ IsPrefix(resolved, resolved')
                 /\ IsPrefix(collisions, collisions')
                 /\ Len(resolved') + Len(collisions')
                        <= Len(resolved) + Len(collisions) + 1]_vars

\* syncDir has been entered for a directory beneath the root with a file of
\* the root in `resolved`, and has claimed a file of that directory as well.
C15_Witness ==
    /\ pc = "walk"
    /\ Len(resolved) >= 2
    /\ resolved[1].dir = targetRoot
    /\ resolved[2].dir # targetRoot

\* The source files listed in the directory that mirrors the target file's.
SourcesBeside(t) == {s \in Listed : Mirrored(s.dir) = t.dir}

\* A target file of before the run that matches no source file beside it.
Unmatched(t) == \A s \in SourcesBeside(t) : ~areSyncable(Parse(s), Parse(t))

\* C16: through the walk and at its end, a target file of before the run
\* that matches no source file of the mirrored directory is still at its path
\* with its content, and every target directory of before the run is still
\* there.
C16_UnmatchedTargetsKept ==
    /\ InWalk => \A t \in tgt0 : Unmatched(t) => t \in DOMAIN tgt /\ tgt[t] = t
    /\ tgtDirs0 \subseteq tgtDirs

\* The walk is done; it has renamed a target file and copied a source file
\* in a directory that holds a target file matching none of the source files.
C16_Witness ==
    /\ WalkDone
    /\ pc = "walk"
    /\ \E t \in tgt0 :
           /\ Unmatched(t)
           /\ \E n \in 1..Len(ops) : ops[n].kind = "copy" /\ ops[n].to.dir = t.dir
           /\ \E n \in 1..Len(ops) : ops[n].kind = "rename" /\ ops[n].to.dir = t.dir

\* The target tree `files` with the file at `old` moved to `new`.
Moved(files, old, new) ==
    [p \in (DOMAIN files \ {old}) \cup {new} |-> IF p = new THEN files[old] ELSE files[p]]

\* C17: carrying out the plan with postfix p, a key's candidate goes, in the
\* candidate's own directory and under its own extension, to the stem made of
\* the key's stem, a space and p; a key without candidate has its source file
\* copied to targetRoot joined with the file's directory relative to
\* sourceRoot, under that same stem and the source file's extension.
C17_ResolverDestinations ==
    [][pc = "resolveCollisions" /\ keys = <<>> /\ step' # step =>
          IF step < Len(toRename)
          THEN LET file == toRename[step + 1].file
                   source == collisions[toRename[step + 1].key].key
                   old == [dir |-> file.dir, base |-> file.name \o file.ext]
                   new == [dir |-> file.dir,
                           base |-> source.name \o <<" ">> \o postfix \o file.ext]
               IN  /\ old \in DOMAIN tgt
                   /\ tgt' = Moved(tgt, old, new)
          ELSE LET source == toCopy[step - Len(toRename) + 1].source
                   from == [dir |-> source.dir, base |-> source.name \o source.ext]
                   to == [dir |-> targetRoot \o SubSeq(source.dir, Len(sourceRoot) + 1,
                                                        Len(source.dir)),
                          base |-> source.name \o <<" ">> \o postfix \o source.ext]
               IN  /\ source = collisions[toCopy[step - Len(toRename) + 1].key].key
                   /\ DOMAIN tgt' = DOMAIN tgt \cup {to}
                   /\ tgt'[to] = from
                   /\ \A p \in DOMAIN tgt \ {to} : tgt'[p] = tgt[p]]_vars

\* The plan is carried out: a file of a directory beneath the root was
\* renamed for a key, and a source file of such a directory was copied.
C17_Witness ==
    /\ Completed
    /\ \E n \in 1..Len(ops) :
           /\ ops[n].kind = "rename"
           /\ ops[n].from.dir # targetRoot
           /\ ops[n].to \in DOMAIN tgt
    /\ \E n \in 1..Len(ops) :
           /\ ops[n].kind = "copy"
           /\ ops[n].from.dir # sourceRoot
           /\ ops[n].to \in DOMAIN tgt

\* What the files of the target tree hold.
Contents == {tgt[p] : p \in DOMAIN tgt}

\* C18: no rename and no copy of the walk writes over a file of the target
\* tree, so that what a file held before the run, or what a copy of the walk
\* put there, is still held by some file of the target tree.
C18_WalkOverwritesNothing ==
    InWalk =>
        /\ tgt0 \subseteq Contents
        /\ \A n \in 1..Len(ops) : ops[n].kind = "copy" => ops[n].from \in Contents

\* The renames and copies of resolveCollisions: those done for a source file
\* that is a key of the map.
ResolverOps ==
    {n \in 1..Len(ops) :
        /\ ops[n].kind \in {"rename", "copy"}
        /\ \E k \in 1..Len(collisions) : fullPath(collisions[k].key) = ops[n].by}

\* C19: the renames and copies of one resolveCollisions pass go to pairwise
\* different paths.
C19_ResolverDestinationsDistinct ==
    \A m, n \in ResolverOps : m # n => ops[m].to # ops[n].to

====
